---- MODULE Spec2Model ----
(***************************************************************************)
(* The MQTT connection controller MQTT_Ctrl of ac_remote_final.  The       *)
(* repository holds two variants of the controller: src/js6.js and the     *)
(* file src/unnamed/part_000.  A behaviour of this module is a run of one  *)
(* of them (variable variant), driven by host calls, by the events of the  *)
(* Paho transport and by the expiry of the timers the controller armed.    *)
(***************************************************************************)
EXTENDS Integers, Sequences, FiniteSets, TLC

VARIABLES
    variant,                          \* which of the two source files runs
    client,                           \* the Paho client: "null" or its session state
    connectedToBroker,                \* let connectedToBroker
    esp32ConfirmedOnline,             \* let esp32ConfirmedOnline
    onDataReceivedCallback,           \* TRUE once a data callback is registered
    onConnectionStatusChangeCallback, \* TRUE once a status callback is registered
    deviceReadyTimeoutId,             \* let deviceReadyTimeoutId; 0 is null
    timers,                           \* ids of the setTimeout timers still pending
    nextTimerId,                      \* the id the next setTimeout returns
    lastOp,                           \* the handler that ran last
    lastIn,                           \* its input, e.g. <<topic, payload>> of a message
    notified,                         \* arguments of the status callbacks it made
    calls,                            \* the transport calls it made, in order
    ret,                              \* what it returned (or threw) to the host
    dataOut,                          \* payloads it forwarded to the data callback
    disconnectRequested,              \* disconnect() was called and connect() not since
    tick,                             \* progress of an online/timer race (see Observe)
    will,                             \* the last will the broker holds for the session
    readyChannel                      \* retained message of the device-ready topic, if any

vars == <<variant, client, connectedToBroker, esp32ConfirmedOnline,
          onDataReceivedCallback, onConnectionStatusChangeCallback,
          deviceReadyTimeoutId, timers, nextTimerId, lastOp, lastIn, notified,
          calls, ret, dataOut, disconnectRequested, tick, will, readyChannel>>

\* Number of timer ids the model hands out (setTimeout never reuses an id).
MaxTimers == 3

Variants == {"js6", "part_000"}

MQTT_COMMAND_TOPIC == "ac_remote/SANKAR_AC_BLE_MQTT/command_to_esp32"
MQTT_STATUS_TOPIC == "ac_remote/SANKAR_AC_BLE_MQTT/status_from_esp32"
MQTT_DEVICE_READY_TOPIC == "ac_remote/SANKAR_AC_BLE_MQTT/esp32_ready"

(***************************************************************************)
(* Payload strings are sequences of characters, so that the comparison of  *)
(* js6.js (=== 'online') and the test of part_000                          *)
(* (toLowerCase().includes("online")) are computed as the code does.       *)
(***************************************************************************)
Online == <<"o", "n", "l", "i", "n", "e">>
Offline == <<"o", "f", "f", "l", "i", "n", "e">>
OnlineUpper == <<"O", "N", "L", "I", "N", "E">>
OnlineLong == <<"o", "n", "l", "i", "n", "e", "!">>
Empty == <<>>
Payloads == {Online, Offline, OnlineUpper, OnlineLong, Empty}

toLowerCase(s) ==
    [i \in 1..Len(s) |->
        CASE s[i] = "O" -> "o"
          [] s[i] = "N" -> "n"
          [] s[i] = "L" -> "l"
          [] s[i] = "I" -> "i"
          [] s[i] = "E" -> "e"
          [] s[i] = "F" -> "f"
          [] OTHER -> s[i]]

includes(s, t) ==
    \E i \in 1..(Len(s) - Len(t) + 1) : SubSeq(s, i, i + Len(t) - 1) = t

\* A JavaScript boolean as the host's callback sees it.
Bool(b) == IF b THEN "true" ELSE "false"

\* client.isConnected()
isConnected == client = "connected"

isBrokerConnected ==
    IF variant = "js6" THEN connectedToBroker
    ELSE connectedToBroker /\ client # "null" /\ isConnected

isFullyConnected == isBrokerConnected /\ esp32ConfirmedOnline

(***************************************************************************)
(* _updateAndNotifyStatus, applied to the calls ups (a sequence of         *)
(* <<broker, device, message>>) a handler makes: the flags are those of    *)
(* the last call, and each call reaches the status callback when one is    *)
(* registered.  js6.js passes (broker, device, message); part_000 passes   *)
(* ('mqtt', connectedToBroker, message).                                   *)
(***************************************************************************)
CallbackArgs(u) ==
    IF variant = "js6" THEN <<Bool(u[1]), Bool(u[2]), u[3]>>
    ELSE <<"mqtt", Bool(u[1]), u[3]>>

_updateAndNotifyStatus(ups) ==
    /\ connectedToBroker' =
           IF ups = <<>> THEN connectedToBroker ELSE ups[Len(ups)][1]
    /\ esp32ConfirmedOnline' =
           IF ups = <<>> THEN esp32ConfirmedOnline ELSE ups[Len(ups)][2]
    /\ notified' =
           IF onConnectionStatusChangeCallback
           THEN [i \in 1..Len(ups) |-> CallbackArgs(ups[i])]
           ELSE <<>>

\* clearTimeout(deviceReadyTimeoutId): the pending timers that remain.
clearTimeout == timers \ {deviceReadyTimeoutId}

\* No will is registered with the broker.
NoWill == [willMessage |-> <<>>, willDestinationName |-> "", willQos |-> 0,
           willRetain |-> FALSE]

Init ==
    /\ variant \in Variants
    /\ client = "null"
    /\ connectedToBroker = FALSE
    /\ esp32ConfirmedOnline = FALSE
    /\ onDataReceivedCallback = FALSE
    /\ onConnectionStatusChangeCallback = FALSE
    /\ deviceReadyTimeoutId = 0
    /\ timers = {}
    /\ nextTimerId = 1
    /\ lastOp = "none"
    /\ lastIn = <<>>
    /\ notified = <<>>
    /\ calls = <<>>
    /\ ret = "none"
    /\ dataOut = <<>>
    /\ disconnectRequested = FALSE
    /\ tick = "none"
    /\ will = NoWill
    /\ readyChannel = <<>>

(***************************************************************************)
(* Observe(op, in) records the handler that runs and its input.  tick      *)
(* follows the race of the device-ready "online" message with the expiry   *)
(* of a timer: from a state with the broker connected, the device          *)
(* unconfirmed and a timer pending, the first of the two makes it          *)
(* "online" or "fired"; the other one, delivered immediately after, makes  *)
(* it "both"; any other handler resets it.                                 *)
(***************************************************************************)
IsOnlineMessage(op, in) ==
    op = "onMessageArrived" /\ in = <<MQTT_DEVICE_READY_TOPIC, Online>>

Awaiting == connectedToBroker /\ ~esp32ConfirmedOnline /\ timers # {}

Observe(op, in) ==
    /\ lastOp' = op
    /\ lastIn' = in
    /\ tick' =
           IF tick = "online" /\ op = "deviceReadyTimeout" THEN "both"
           ELSE IF tick = "fired" /\ IsOnlineMessage(op, in) THEN "both"
           ELSE IF Awaiting /\ IsOnlineMessage(op, in) THEN "online"
           ELSE IF Awaiting /\ op = "deviceReadyTimeout" THEN "fired"
           ELSE "none"

(***************************************************************************)
(* init(config).  ctorOk: new Paho.Client(...) returns rather than throws. *)
(* The host passes both callbacks.  js6.js keeps an existing client;       *)
(* part_000 builds a new one on every call and keeps the old one when the  *)
(* constructor throws.                                                     *)
(***************************************************************************)
init(ctorOk) ==
    /\ Observe("init", <<>>)
    /\ notified' = <<>>
    /\ calls' = <<>>
    /\ dataOut' = <<>>
    /\ IF variant = "js6" /\ client # "null"
       THEN /\ ret' = "true"
            /\ UNCHANGED <<client, onDataReceivedCallback,
                           onConnectionStatusChangeCallback>>
       ELSE /\ onDataReceivedCallback' = TRUE
            /\ onConnectionStatusChangeCallback' = TRUE
            /\ client' = IF ctorOk THEN "idle" ELSE client
            /\ ret' = Bool(ctorOk)
    /\ UNCHANGED <<variant, connectedToBroker, esp32ConfirmedOnline,
                   deviceReadyTimeoutId, timers, nextTimerId, disconnectRequested, will, readyChannel>>

(***************************************************************************)
(* The status a handler reports, as the arguments of its calls to          *)
(* _updateAndNotifyStatus.                                                 *)
(***************************************************************************)
connectingStatus == <<FALSE, FALSE, "MQTT Connecting...">>
connectErrorStatus == <<FALSE, FALSE, "MQTT Connection Error">>
awaitingStatus == <<TRUE, FALSE, "Awaiting Device...">>
onConnectFailureStatus == <<FALSE, FALSE, "MQTT Failed">>
disconnectStatus == <<FALSE, FALSE, "MQTT Disconnected">>
disconnectErrorStatus == <<FALSE, FALSE, "MQTT Disconnect Error">>
\* deviceOnlineStatus that leaves the device flag as the timeout left it.
deviceOnlineStatus_Sticky == <<TRUE, esp32ConfirmedOnline, "MQTT Device Online">>

deviceOnlineStatus == <<TRUE, TRUE, "MQTT Device Online">>

deviceOfflineStatus == <<TRUE, FALSE, "Device Offline">>

\* onConnectionLostStatus with the device flag left as it was.
onConnectionLostStatus_KeepsDevice(errorCode) ==
    <<FALSE, esp32ConfirmedOnline, "MQTT Disconnected">>

onConnectionLostStatus(errorCode) ==
    IF variant = "js6" THEN <<FALSE, FALSE, "MQTT Disconnected">>
    ELSE IF errorCode # 0 THEN <<FALSE, FALSE, "MQTT Connection Lost">>
    ELSE <<FALSE, FALSE, "MQTT Disconnected">>

forceConfirmStatus ==
    IF variant = "js6" THEN <<TRUE, TRUE, "MQTT Device Online">>
    ELSE <<TRUE, TRUE, "MQTT Device Online (Confirmed Alt)">>

\* The status calls of the timer callback armed by setTimeout.
deviceReadyTimeoutStatus ==
    IF variant = "js6" THEN << <<TRUE, FALSE, "Device Offline">> >>
    ELSE IF connectedToBroker /\ ~esp32ConfirmedOnline
         THEN << <<TRUE, FALSE, "MQTT: Device Not Responding">> >>
         ELSE <<>>

(***************************************************************************)
(* connect().  Both variants return at once when connectedToBroker is set  *)
(* or no client exists.  js6.js then calls client.connect(connectOptions); *)
(* the client accepts the request when it has no session (and throws       *)
(* otherwise, or when throws is chosen), and a throw is caught and         *)
(* reported.  part_000 reports "MQTT Connecting..." and then evaluates     *)
(* onMessageArrived, an identifier the file never declares: the call ends  *)
(* in a ReferenceError before client.connect is reached.                   *)
(***************************************************************************)
\* connectOptions whose will is not retained.
connectOptions_NoRetain ==
    [willMessage |-> Offline, willDestinationName |-> MQTT_DEVICE_READY_TOPIC,
     willQos |-> 1, willRetain |-> FALSE]

\* The last will in the connectOptions that connect() hands to client.connect.
connectOptions ==
    [willMessage |-> Offline, willDestinationName |-> MQTT_DEVICE_READY_TOPIC,
     willQos |-> 1, willRetain |-> TRUE]

connect(throws) ==
    /\ nextTimerId <= MaxTimers
    /\ Observe("connect", <<>>)
    /\ dataOut' = <<>>
    /\ disconnectRequested' = FALSE
    /\ IF connectedToBroker \/ client = "null"
       THEN /\ ret' = "undefined"
            /\ calls' = <<>>
            /\ notified' = <<>>
            /\ UNCHANGED <<client, connectedToBroker, esp32ConfirmedOnline, will>>
       ELSE IF variant = "js6"
       THEN LET accepted == client = "idle" /\ ~throws IN
            /\ calls' = << <<"connect", MQTT_DEVICE_READY_TOPIC>> >>
            /\ client' = IF accepted THEN "connecting" ELSE client
            /\ will' = IF accepted THEN connectOptions ELSE will
            /\ _updateAndNotifyStatus(
                   IF accepted THEN <<connectingStatus>>
                   ELSE <<connectingStatus, connectErrorStatus>>)
            /\ ret' = "undefined"
       ELSE /\ calls' = <<>>
            /\ _updateAndNotifyStatus(<<connectingStatus>>)
            /\ ret' = "ReferenceError"
            /\ UNCHANGED <<client, will>>
    /\ UNCHANGED <<variant, onDataReceivedCallback, onConnectionStatusChangeCallback,
                   deviceReadyTimeoutId, timers, nextTimerId, readyChannel>>

(***************************************************************************)
(* disconnect().  js6.js returns at once unless connectedToBroker is set;  *)
(* otherwise it calls client.disconnect() (which throws when the client    *)
(* has no session; the throw is caught) and reports "MQTT Disconnected".   *)
(* part_000 clears the timer; with a connected client it unsubscribes from *)
(* both topics and disconnects (throwAt = k: the k-th of these calls       *)
(* throws, which is reported as "MQTT Disconnect Error"); without one it   *)
(* reports "MQTT Disconnected".                                            *)
(***************************************************************************)
disconnect(throwAt) ==
    /\ Observe("disconnect", <<>>)
    /\ dataOut' = <<>>
    /\ ret' = "undefined"
    /\ disconnectRequested' = TRUE
    /\ IF variant = "js6"
       THEN /\ throwAt = 0
            /\ IF client = "null" \/ ~connectedToBroker
               THEN /\ calls' = <<>>
                    /\ notified' = <<>>
                    /\ UNCHANGED <<client, connectedToBroker, esp32ConfirmedOnline>>
               ELSE /\ calls' = << <<"disconnect", "">> >>
                    /\ client' = IF client \in {"connecting", "connected"}
                                 THEN "closing" ELSE client
                    /\ _updateAndNotifyStatus(<<disconnectStatus>>)
            /\ UNCHANGED timers
       ELSE /\ timers' = clearTimeout
            /\ IF client # "null" /\ isConnected
               THEN LET all == << <<"unsubscribe", MQTT_STATUS_TOPIC>>,
                                  <<"unsubscribe", MQTT_DEVICE_READY_TOPIC>>,
                                  <<"disconnect", "">> >>
                    IN /\ calls' = IF throwAt = 0 THEN all ELSE SubSeq(all, 1, throwAt)
                       /\ client' = IF throwAt = 0 THEN "closing" ELSE client
                       /\ _updateAndNotifyStatus(
                              IF throwAt = 0 THEN <<>> ELSE <<disconnectErrorStatus>>)
               ELSE /\ throwAt = 0
                    /\ calls' = <<>>
                    /\ _updateAndNotifyStatus(<<disconnectStatus>>)
                    /\ UNCHANGED client
    /\ UNCHANGED <<variant, onDataReceivedCallback, onConnectionStatusChangeCallback,
                   deviceReadyTimeoutId, nextTimerId, will, readyChannel>>

(***************************************************************************)
(* publish(command).  js6.js refuses unless isFullyConnected(); part_000   *)
(* refuses unless isBrokerConnected().  Otherwise the message goes to      *)
(* client.send once; send throws when the client has no session or when    *)
(* sendOk is FALSE, and the throw is caught and answered with false.       *)
(***************************************************************************)
\* publishAllowed with the connection test dropped: any client may send.
publishAllowed_AnyClient == client # "null"

publishAllowed ==
    IF variant = "js6" THEN isFullyConnected ELSE isBrokerConnected

\* publishResult that answers true whatever client.send did.
publishResult_IgnoresThrow(sendOk) == "true"

\* What publish returns once it has called client.send: true unless send threw.
publishResult(sendOk) == Bool(sendOk /\ isConnected)

publish(sendOk) ==
    /\ Observe("publish", <<sendOk>>)
    /\ dataOut' = <<>>
    /\ notified' = <<>>
    /\ IF ~publishAllowed
       THEN /\ sendOk
            /\ calls' = <<>>
            /\ ret' = "false"
       ELSE /\ calls' = << <<"send", MQTT_COMMAND_TOPIC>> >>
            /\ ret' = publishResult(sendOk)
    /\ UNCHANGED <<variant, client, connectedToBroker, esp32ConfirmedOnline,
                   onDataReceivedCallback, onConnectionStatusChangeCallback,
                   deviceReadyTimeoutId, timers, nextTimerId, disconnectRequested, will, readyChannel>>

(***************************************************************************)
(* forceDeviceOnlineConfirmation()                                         *)
(***************************************************************************)
forceDeviceOnlineConfirmation ==
    /\ Observe("forceDeviceOnlineConfirmation", <<>>)
    /\ dataOut' = <<>>
    /\ calls' = <<>>
    /\ ret' = "undefined"
    /\ IF isBrokerConnected /\ ~esp32ConfirmedOnline
       THEN /\ timers' = clearTimeout
            /\ _updateAndNotifyStatus(<<forceConfirmStatus>>)
       ELSE /\ notified' = <<>>
            /\ UNCHANGED <<timers, connectedToBroker, esp32ConfirmedOnline>>
    /\ UNCHANGED <<variant, client, onDataReceivedCallback,
                   onConnectionStatusChangeCallback, deviceReadyTimeoutId,
                   nextTimerId, disconnectRequested, will, readyChannel>>

(***************************************************************************)
(* onConnectSuccess: the transport accepted the session that connect()     *)
(* of js6.js requested.  subThrow = k: the k-th client.subscribe throws,   *)
(* the catch calls disconnect() and no timer is armed.  (part_000 never    *)
(* passes an onSuccess handler to the transport: its connect() ends        *)
(* before client.connect.)                                                 *)
(***************************************************************************)
onConnectSuccess(subThrow) ==
    /\ variant = "js6"
    /\ client = "connecting"
    /\ Observe("onConnectSuccess", <<subThrow>>)
    /\ dataOut' = <<>>
    /\ ret' = "none"
    /\ IF subThrow = 0
       THEN /\ calls' = << <<"subscribe", MQTT_STATUS_TOPIC>>,
                           <<"subscribe", MQTT_DEVICE_READY_TOPIC>> >>
            /\ client' = "connected"
            /\ deviceReadyTimeoutId' = nextTimerId
            /\ timers' = timers \cup {nextTimerId}
            /\ nextTimerId' = nextTimerId + 1
            /\ _updateAndNotifyStatus(<<awaitingStatus>>)
       ELSE /\ calls' = SubSeq(<< <<"subscribe", MQTT_STATUS_TOPIC>>,
                                  <<"subscribe", MQTT_DEVICE_READY_TOPIC>> >>,
                               1, subThrow)
                        \o << <<"disconnect", "">> >>
            /\ client' = "closing"
            /\ _updateAndNotifyStatus(<<awaitingStatus, disconnectStatus>>)
            /\ UNCHANGED <<deviceReadyTimeoutId, timers, nextTimerId>>
    /\ UNCHANGED <<variant, onDataReceivedCallback, onConnectionStatusChangeCallback,
                   disconnectRequested, will, readyChannel>>

\* onConnectFailure: the transport gave up the session connect() requested.
onConnectFailure ==
    /\ variant = "js6"
    /\ client = "connecting"
    /\ client' = "idle"
    /\ Observe("onConnectFailure", <<>>)
    /\ dataOut' = <<>>
    /\ calls' = <<>>
    /\ ret' = "none"
    /\ _updateAndNotifyStatus(<<onConnectFailureStatus>>)
    /\ UNCHANGED <<variant, onDataReceivedCallback, onConnectionStatusChangeCallback,
                   deviceReadyTimeoutId, timers, nextTimerId, disconnectRequested, will, readyChannel>>

(***************************************************************************)
(* onConnectionLost(responseObject): the session ended, with errorCode 0   *)
(* when client.disconnect() asked for it and another code when it broke.   *)
(* part_000 clears the timer first.                                        *)
(***************************************************************************)
(***************************************************************************)
(* What the device-ready topic retains once the session has ended: a       *)
(* session that breaks makes the broker publish the will it holds, and a   *)
(* retained will for the device-ready topic replaces the retained message; *)
(* a deliberate disconnect discards the will.                              *)
(***************************************************************************)
willReplay(errorCode) ==
    IF /\ errorCode # 0
       /\ will.willDestinationName = MQTT_DEVICE_READY_TOPIC
       /\ will.willRetain
    THEN <<will.willMessage>>
    ELSE readyChannel

onConnectionLost(errorCode) ==
    /\ \/ errorCode = 0 /\ client = "closing"
       \/ errorCode # 0 /\ client = "connected"
    /\ client' = "idle"
    /\ Observe("onConnectionLost", <<errorCode>>)
    /\ dataOut' = <<>>
    /\ calls' = <<>>
    /\ ret' = "none"
    /\ timers' = IF variant = "js6" THEN timers ELSE clearTimeout
    /\ readyChannel' = willReplay(errorCode)
    /\ _updateAndNotifyStatus(<<onConnectionLostStatus(errorCode)>>)
    /\ UNCHANGED <<variant, onDataReceivedCallback, onConnectionStatusChangeCallback,
                   deviceReadyTimeoutId, nextTimerId, disconnectRequested, will>>

(***************************************************************************)
(* onMessageArrived(message): a message of a subscribed topic, delivered   *)
(* while the session is up.                                                *)
(***************************************************************************)
isOnline(payload) ==
    IF variant = "js6" THEN payload = Online
    ELSE payload # Empty /\ includes(toLowerCase(payload), Online)

onMessageArrived(topic, payload) ==
    /\ client = "connected"
    /\ readyChannel' = IF topic = MQTT_DEVICE_READY_TOPIC THEN <<payload>>
                     ELSE readyChannel
    /\ Observe("onMessageArrived", <<topic, payload>>)
    /\ calls' = <<>>
    /\ ret' = "none"
    /\ IF topic = MQTT_STATUS_TOPIC
       THEN /\ dataOut' = IF onDataReceivedCallback THEN <<payload>> ELSE <<>>
            /\ notified' = <<>>
            /\ UNCHANGED <<timers, connectedToBroker, esp32ConfirmedOnline>>
       ELSE /\ dataOut' = <<>>
            /\ IF isOnline(payload)
               THEN /\ timers' = clearTimeout
                    /\ _updateAndNotifyStatus(<<deviceOnlineStatus>>)
               ELSE /\ timers' = timers
                    /\ _updateAndNotifyStatus(
                           IF variant = "js6" THEN <<deviceOfflineStatus>> ELSE <<>>)
    /\ UNCHANGED <<variant, client, onDataReceivedCallback,
                   onConnectionStatusChangeCallback, deviceReadyTimeoutId,
                   nextTimerId, disconnectRequested, will>>

\* The callback of a pending setTimeout timer runs.
deviceReadyTimeout(id) ==
    /\ id \in timers
    /\ timers' = timers \ {id}
    /\ Observe("deviceReadyTimeout", <<id>>)
    /\ dataOut' = <<>>
    /\ calls' = <<>>
    /\ ret' = "none"
    /\ _updateAndNotifyStatus(deviceReadyTimeoutStatus)
    /\ UNCHANGED <<variant, client, onDataReceivedCallback,
                   onConnectionStatusChangeCallback, deviceReadyTimeoutId,
                   nextTimerId, disconnectRequested, will, readyChannel>>

Next ==
    \/ \E ctorOk \in BOOLEAN : init(ctorOk)
    \/ \E throws \in BOOLEAN : connect(throws)
    \/ \E throwAt \in 0..3 : disconnect(throwAt)
    \/ \E sendOk \in BOOLEAN : publish(sendOk)
    \/ forceDeviceOnlineConfirmation
    \/ \E subThrow \in 0..2 : onConnectSuccess(subThrow)
    \/ onConnectFailure
    \/ \E errorCode \in {0, 1} : onConnectionLost(errorCode)
    \/ \E topic \in {MQTT_STATUS_TOPIC, MQTT_DEVICE_READY_TOPIC}, payload \in Payloads :
           onMessageArrived(topic, payload)
    \/ \E id \in 1..MaxTimers : deviceReadyTimeout(id)

Spec == Init /\ [][Next]_vars

(***************************************************************************)
(* The vocabulary of the claims.  The specification names a status by its  *)
(* message without the "MQTT" prefix and the trailing dots the code adds.  *)
(***************************************************************************)
Label(message) ==
    CASE message = "MQTT Connecting..." -> "Connecting"
      [] message = "Awaiting Device..." -> "Awaiting Device"
      [] message = "MQTT Device Online" -> "Device Online"
      [] message = "MQTT: Device Not Responding" -> "Device Not Responding"
      [] message = "MQTT Connection Lost" -> "Connection Lost"
      [] message = "MQTT Disconnected" -> "Disconnected"
      [] message = "MQTT Device Online (Confirmed Alt)" -> "Device Online (Confirmed Alt)"
      [] OTHER -> message

\* Among the status callbacks n, one received (broker, device, label).
Received(n, broker, device, label) ==
    \E i \in 1..Len(n) :
        /\ n[i][1] = Bool(broker)
        /\ n[i][2] = Bool(device)
        /\ Label(n[i][3]) = label

\* The transport calls cs hold the call <<op, arg>>.
Called(cs, op, arg) == \E i \in 1..Len(cs) : cs[i] = <<op, arg>>

\* The number of client.connect calls among cs.
ConnectRequests(cs) == Cardinality({i \in 1..Len(cs) : cs[i][1] = "connect"})

\* C1: in every reachable state, deviceConfirmed implies brokerConnected.
C1_DeviceImpliesBroker == esp32ConfirmedOnline => connectedToBroker

\* C1 witness: the device is confirmed (over a connected broker).
C1_Witness == esp32ConfirmedOnline /\ connectedToBroker /\ lastOp = "onMessageArrived"

\* C2: a connect() call made while an earlier connect attempt is still pending
\* (the transport has answered neither success nor failure) issues no transport
\* connect request, so that the pending attempt's request is the only one.
C2_ConnectIdempotent ==
    [][(lastOp' = "connect" /\ client = "connecting") => ConnectRequests(calls') = 0]_vars

\* C3: when the device-ready "online" message and a timer expiry are delivered
\* one right after the other, in either order, from a state that awaits the
\* device, the end state is FULLY_CONNECTED; and a timer firing when the device
\* is already confirmed changes nothing.
C3_RaceEndsFullyConnected ==
    [][/\ tick' = "both" => (connectedToBroker' /\ esp32ConfirmedOnline')
       /\ (lastOp' = "deviceReadyTimeout" /\ connectedToBroker /\ esp32ConfirmedOnline)
              => (connectedToBroker' /\ esp32ConfirmedOnline' /\ notified' = <<>>)]_vars

\* C4: from a disconnect() call until the next connect() call, brokerConnected
\* is never true.
C4_DisconnectedAfterDisconnect == disconnectRequested => ~connectedToBroker

\* C5: when the transport reports connect success, the controller subscribes to
\* the status and device-ready channels, arms the watchdog, ends with
\* brokerConnected = true and deviceConfirmed = false, and the status callback
\* receives (true, false, "Awaiting Device").
C5_ConnectSuccess ==
    [][lastOp' = "onConnectSuccess" =>
          /\ Called(calls', "subscribe", MQTT_STATUS_TOPIC)
          /\ Called(calls', "subscribe", MQTT_DEVICE_READY_TOPIC)
          /\ deviceReadyTimeoutId' \in timers'
          /\ connectedToBroker' /\ ~esp32ConfirmedOnline'
          /\ Received(notified', TRUE, FALSE, "Awaiting Device")]_vars

\* C6: with the broker connected and the device unconfirmed, a device-ready
\* "online" message confirms the device, leaves no watchdog pending, and the
\* status callback receives (true, true, "Device Online").
C6_OnlineConfirms ==
    [][(IsOnlineMessage(lastOp', lastIn') /\ connectedToBroker /\ ~esp32ConfirmedOnline) =>
          /\ esp32ConfirmedOnline'
          /\ timers' = {}
          /\ Received(notified', TRUE, TRUE, "Device Online")]_vars

\* C7: when the watchdog armed by a connect success fires with the broker still
\* connected and the device still unconfirmed, the status callback receives
\* (true, false, "Device Not Responding") and the flags stay (true, false).
C7_WatchdogReports ==
    [][(/\ lastOp' = "deviceReadyTimeout"
        /\ lastIn' = <<deviceReadyTimeoutId>>
        /\ connectedToBroker /\ ~esp32ConfirmedOnline) =>
          /\ connectedToBroker' /\ ~esp32ConfirmedOnline'
          /\ Received(notified', TRUE, FALSE, "Device Not Responding")]_vars

\* C8: disconnect() in FULLY_CONNECTED attempts an unsubscribe on the status
\* and the device-ready channel and requests the transport teardown; both flags
\* end false and the status callback receives (false, false, "Disconnected"),
\* in the call itself or when the teardown it requested completes.
C8_DisconnectFromFullyConnected ==
    [][/\ (lastOp' = "disconnect" /\ connectedToBroker /\ esp32ConfirmedOnline) =>
             /\ Called(calls', "unsubscribe", MQTT_STATUS_TOPIC)
             /\ Called(calls', "unsubscribe", MQTT_DEVICE_READY_TOPIC)
             /\ Called(calls', "disconnect", "")
             /\ \/ client' = "closing"
                \/ /\ ~connectedToBroker' /\ ~esp32ConfirmedOnline'
                   /\ Received(notified', FALSE, FALSE, "Disconnected")
       /\ (lastOp' = "onConnectionLost" /\ lastIn' = <<0>>) =>
             /\ ~connectedToBroker' /\ ~esp32ConfirmedOnline'
             /\ Received(notified', FALSE, FALSE, "Disconnected")]_vars

\* C9: publish() called while brokerConnected is false returns false, makes no
\* transport call, and leaves both flags and the watchdog unchanged.
C9_PublishNotConnected ==
    [][(lastOp' = "publish" /\ ~connectedToBroker) =>
          /\ ret' = "false"
          /\ calls' = <<>>
          /\ UNCHANGED <<connectedToBroker, esp32ConfirmedOnline,
                         deviceReadyTimeoutId, timers>>]_vars

\* C9 witness: publish() has just failed on a controller that holds a client
\* but no broker connection.
C9_Witness ==
    lastOp = "publish" /\ ~connectedToBroker /\ client # "null" /\ ret = "false"

\* C10: publish() called with brokerConnected true and deviceConfirmed false
\* hands exactly one message for the command channel to the transport, and
\* returns true when the transport accepts it.
C10_DegradedPublish ==
    [][(lastOp' = "publish" /\ connectedToBroker /\ ~esp32ConfirmedOnline) =>
          /\ calls' = << <<"send", MQTT_COMMAND_TOPIC>> >>
          /\ (lastIn' = <<TRUE>> /\ isConnected) => ret' = "true"]_vars

\* C11: when client.send fails during publish(), publish returns false after
\* exactly one send attempt, and both flags and the watchdog are unchanged.
C11_PublishSendFailure ==
    [][(/\ lastOp' = "publish"
        /\ publishAllowed
        /\ (lastIn' = <<FALSE>> \/ ~isConnected)) =>
          /\ ret' = "false"
          /\ calls' = << <<"send", MQTT_COMMAND_TOPIC>> >>
          /\ UNCHANGED <<connectedToBroker, esp32ConfirmedOnline,
                         deviceReadyTimeoutId, timers>>]_vars

\* C11 witness: a publish() that reached client.send and came back false.
C11_Witness ==
    /\ lastOp = "publish" /\ lastIn = <<FALSE>>
    /\ calls = << <<"send", MQTT_COMMAND_TOPIC>> >>
    /\ ret = "false"

\* The watchdog has fired and left the controller in DEVICE_NOT_RESPONDING.
DeviceNotResponding ==
    /\ connectedToBroker /\ ~esp32ConfirmedOnline
    /\ deviceReadyTimeoutId # 0 /\ deviceReadyTimeoutId \notin timers

\* C12: in DEVICE_NOT_RESPONDING (broker connected, device unconfirmed, the
\* watchdog fired), a later device-ready "online" message moves the controller
\* to FULLY_CONNECTED.
C12_LateOnlineRecovers ==
    [][(DeviceNotResponding /\ IsOnlineMessage(lastOp', lastIn')) =>
          (connectedToBroker' /\ esp32ConfirmedOnline')]_vars

\* C12 witness: the timer fired while the device was awaited, the "online"
\* message came right after it, and the device is confirmed.
C12_Witness ==
    tick = "both" /\ lastOp = "onMessageArrived" /\ esp32ConfirmedOnline

\* C13: forceDeviceOnlineConfirmation() called with brokerConnected true and
\* deviceConfirmed false confirms the device, disarms the watchdog and notifies
\* (true, true, "Device Online (Confirmed Alt)"); called in any other state it
\* changes neither flag, leaves the watchdog alone and notifies nothing.
C13_ForceConfirmation ==
    [][lastOp' = "forceDeviceOnlineConfirmation" =>
          IF connectedToBroker /\ ~esp32ConfirmedOnline
          THEN /\ connectedToBroker' /\ esp32ConfirmedOnline'
               /\ deviceReadyTimeoutId' \notin timers'
               /\ Received(notified', TRUE, TRUE, "Device Online (Confirmed Alt)")
          ELSE /\ UNCHANGED <<connectedToBroker, esp32ConfirmedOnline,
                              deviceReadyTimeoutId, timers>>
               /\ notified' = <<>>]_vars

\* C14: an abnormal connection loss in a connected state clears both flags in
\* that transition and the status callback receives (false, false,
\* "Connection Lost"), not the "Disconnected" of a deliberate disconnect; a
\* connect() call made right after it issues a transport connect request.
C14_AbnormalLoss ==
    [][/\ (lastOp' = "onConnectionLost" /\ lastIn' # <<0>> /\ connectedToBroker) =>
             /\ ~connectedToBroker' /\ ~esp32ConfirmedOnline'
             /\ Received(notified', FALSE, FALSE, "Connection Lost")
             /\ ~Received(notified', FALSE, FALSE, "Disconnected")
       /\ (lastOp = "onConnectionLost" /\ lastIn # <<0>> /\ lastOp' = "connect") =>
             ConnectRequests(calls') = 1]_vars

(***************************************************************************)
(* The test of the device-ready payload on its own: isOnline applied to    *)
(* payloads built around "online", "ONLINE", "Online", "offline" and the   *)
(* empty string, with up to MaxPad characters before and after.            *)
(***************************************************************************)
MaxPad == 1

OnlineCapital == <<"O", "n", "l", "i", "n", "e">>

Pads == UNION {[1..n -> {"!", " "}] : n \in 0..MaxPad}

TestPayloads ==
    {pre \o core \o post :
        pre \in Pads, post \in Pads,
        core \in {Online, OnlineUpper, OnlineCapital, Offline, Empty}}

InitIsOnline ==
    /\ variant \in Variants
    /\ client = "null"
    /\ connectedToBroker = FALSE
    /\ esp32ConfirmedOnline = FALSE
    /\ onDataReceivedCallback = FALSE
    /\ onConnectionStatusChangeCallback = FALSE
    /\ deviceReadyTimeoutId = 0
    /\ timers = {}
    /\ nextTimerId = 1
    /\ lastOp = "none"
    /\ lastIn \in {<<MQTT_DEVICE_READY_TOPIC, payload>> : payload \in TestPayloads}
    /\ notified = <<>>
    /\ calls = <<>>
    /\ ret = "none"
    /\ dataOut = <<>>
    /\ disconnectRequested = FALSE
    /\ tick = "none"
    /\ will = NoWill
    /\ readyChannel = <<>>

applyIsOnline ==
    /\ lastOp = "none"
    /\ lastOp' = "isOnline"
    /\ ret' = Bool(isOnline(lastIn[2]))
    /\ UNCHANGED <<variant, client, connectedToBroker, esp32ConfirmedOnline,
                   onDataReceivedCallback, onConnectionStatusChangeCallback,
                   deviceReadyTimeoutId, timers, nextTimerId, lastIn, notified,
                   calls, dataOut, disconnectRequested, tick, will, readyChannel>>

SpecIsOnline == InitIsOnline /\ [][applyIsOnline]_vars

\* C15: on the device-ready channel only the exact payload "online" counts as
\* the device being online; every other payload ("offline", "ONLINE", a longer
\* string containing "online", the empty string) counts as not ready.
C15_OnlyExactOnline ==
    (lastOp = "isOnline" /\ lastIn[2] # Online) => ret = "false"

\* C16 as stated: every connect request the transport accepts carries the last
\* will "offline" for the device-ready channel, retained, with QoS at least 1;
\* after an ungraceful loss of the session the device-ready channel reads
\* "offline"; a controller that (re)connects holds the device unconfirmed,
\* and the device becomes confirmed only when the channel reads "online".
C16_LastWill_AsStated ==
    [][/\ (lastOp' = "connect" /\ client' = "connecting") =>
             /\ will'.willMessage = Offline
             /\ will'.willDestinationName = MQTT_DEVICE_READY_TOPIC
             /\ will'.willRetain
             /\ will'.willQos >= 1
       /\ (lastOp' = "onConnectionLost" /\ lastIn' # <<0>>) =>
             readyChannel' = <<Offline>>
       /\ lastOp' = "onConnectSuccess" => ~esp32ConfirmedOnline'
       /\ (readyChannel' = <<Offline>> /\ readyChannel # <<Offline>>) =>
             ~esp32ConfirmedOnline'
       /\ (~esp32ConfirmedOnline /\ esp32ConfirmedOnline') =>
             readyChannel' = <<Online>>]_vars

\* C16, amended: as stated, except that the device also becomes confirmed,
\* whatever the channel reads, when the host calls
\* forceDeviceOnlineConfirmation().
C16_LastWill ==
    [][/\ (lastOp' = "connect" /\ client' = "connecting") =>
             /\ will'.willMessage = Offline
             /\ will'.willDestinationName = MQTT_DEVICE_READY_TOPIC
             /\ will'.willRetain
             /\ will'.willQos >= 1
       /\ (lastOp' = "onConnectionLost" /\ lastIn' # <<0>>) =>
             readyChannel' = <<Offline>>
       /\ lastOp' = "onConnectSuccess" => ~esp32ConfirmedOnline'
       /\ (readyChannel' = <<Offline>> /\ readyChannel # <<Offline>>) =>
             ~esp32ConfirmedOnline'
       /\ (/\ ~esp32ConfirmedOnline /\ esp32ConfirmedOnline'
           /\ lastOp' # "forceDeviceOnlineConfirmation") =>
             readyChannel' = <<Online>>]_vars

\* C16 witness: a session broke, the will turned the channel to "offline",
\* and the controller has reconnected and holds the device unconfirmed.
C16_Witness ==
    /\ lastOp = "onConnectSuccess" /\ lastIn = <<0>>
    /\ readyChannel = <<Offline>>
    /\ connectedToBroker /\ ~esp32ConfirmedOnline
    /\ nextTimerId > 2

\* C17: at every instant at most one watchdog timer is pending.
C17_OneWatchdog == Cardinality(timers) <= 1

\* C18: once disconnect() was called or a connection-lost event was processed,
\* no watchdog timer remains pending.
C18_NoDanglingWatchdog ==
    [][lastOp' \in {"disconnect", "onConnectionLost"} => timers' = {}]_vars

\* C19: in FULLY_CONNECTED, a device-ready message whose payload is not
\* "online" clears deviceConfirmed, keeps brokerConnected, notifies
\* (true, false, "Device Offline") and re-arms the watchdog.
C19_RegressionRearms ==
    [][(/\ lastOp' = "onMessageArrived"
        /\ lastIn'[1] = MQTT_DEVICE_READY_TOPIC /\ lastIn'[2] # Online
        /\ connectedToBroker /\ esp32ConfirmedOnline) =>
          /\ connectedToBroker' /\ ~esp32ConfirmedOnline'
          /\ Received(notified', TRUE, FALSE, "Device Offline")
          /\ deviceReadyTimeoutId' \in timers']_vars

\* C20: a subscription failure after a transport connect success does not
\* abort the session: brokerConnected stays true, no transport teardown is
\* requested and no disconnected status is notified.
C20_SubscriptionFailureKeepsSession ==
    [][(lastOp' = "onConnectSuccess" /\ lastIn' # <<0>>) =>
          /\ connectedToBroker'
          /\ ~Called(calls', "disconnect", "")
          /\ ~Received(notified', FALSE, FALSE, "Disconnected")]_vars

\* C21: brokerConnected changes from false to true only when a transport
\* connect-success event is processed (never by a watchdog firing, a message,
\* publish() or forceDeviceOnlineConfirmation()), so brokerConnected is never
\* true while the transport session is torn down.
C21_OnlyConnectSuccessSetsBroker ==
    [][/\ (~connectedToBroker /\ connectedToBroker') =>
              lastOp' = "onConnectSuccess"
       /\ connectedToBroker' => client' \notin {"null", "idle", "closing"}]_vars

====
